---- MODULE Spec2Model ----
(***************************************************************************)
(* Black-Scholes pricer (pricerB&S.py, and its French twin pricerBS.py).   *)
(*                                                                         *)
(* Numbers.  The source computes in IEEE-754 doubles.  Here a real x is    *)
(* the integer round(x * SCALE), SCALE = 10^6, and every product and       *)
(* quotient is rounded to the nearest unit, ties to even, as IEEE-754      *)
(* rounds.  The library functions math.log, math.sqrt, math.exp and        *)
(* math.erf are computed by standard algorithms in that arithmetic, so     *)
(* the engine's values agree with the source's to about 1e-5.  Numbers     *)
(* must stay below 2^31 units (2147.48): d1 is the one quantity that       *)
(* leaves that window, and it is kept at +-DClamp, where N and phi have    *)
(* long been constant (see d1).                                            *)
(*                                                                         *)
(* A Python call either returns a float or raises: a result is a record    *)
(* [err |-> "", val |-> v] or [err |-> <exception name>, val |-> 0].       *)
(***************************************************************************)
EXTENDS Integers, Sequences, FiniteSets

SCALE == 10^6
HALF == SCALE \div 2

Abs(x) == IF x < 0 THEN -x ELSE x
Sgn(x) == IF x < 0 THEN -1 ELSE IF x > 0 THEN 1 ELSE 0

Value(v) == [err |-> "", val |-> v]
Raise(e) == [err |-> e, val |-> 0]

\* F applied to the values of its arguments: each argument is evaluated
\* once, before F, as Python evaluates the arguments of a call.
Eval1(F(_), a) == CHOOSE y \in {F(x) : x \in {a}} : TRUE
Eval2(F(_, _), a, b) == CHOOSE y \in {F(x, z) : x \in {a}, z \in {b}} : TRUE
Eval3(F(_, _, _), a, b, c) ==
    CHOOSE y \in {F(x, z, w) : x \in {a}, z \in {b}, w \in {c}} : TRUE

\* a * b / SCALE for a, b >= 0, rounded to nearest, ties to even.  The
\* product is formed from base-1000 limbs so that no intermediate leaves
\* 32 bits.
MulAbs(a, b) ==
    LET a1 == a \div 1000
        a0 == a % 1000
        b1 == b \div 1000
        b0 == b % 1000
        m == a1 * b0 + a0 * b1
        low == (m % 1000) * 1000 + a0 * b0
        q == a1 * b1 + (m \div 1000) + (low \div SCALE)
        rem == low % SCALE
    IN  IF rem > HALF \/ (rem = HALF /\ q % 2 = 1) THEN q + 1 ELSE q

\* Python's float product a * b.
MulFix(a, b) == Sgn(a) * Sgn(b) * MulAbs(Abs(a), Abs(b))

\* a * SCALE / b for a >= 0 and 0 < b < DivFast, rounded to nearest, ties to
\* even: long division, three base-100 digits after the integer part.
DivFast == 2^30 \div 50

DivDigits(a, b) ==
    LET q0 == a \div b
        r0 == a % b
        q1 == (r0 * 100) \div b
        r1 == (r0 * 100) % b
        q2 == (r1 * 100) \div b
        r2 == (r1 * 100) % b
        q3 == (r2 * 100) \div b
        r3 == (r2 * 100) % b
        q == q0 * SCALE + q1 * 10000 + q2 * 100 + q3
    IN  IF r3 > b - r3 \/ (r3 = b - r3 /\ q % 2 = 1) THEN q + 1 ELSE q

\* The same for any divisor: six decimal digits, each from 10 * rem formed
\* modulo b by additions that stay below b.
AddMod(x, y, b) ==
    IF x >= b - y THEN [carry |-> 1, rem |-> x - (b - y)]
    ELSE [carry |-> 0, rem |-> x + y]

TimesTen(rem, b) ==
    LET r2 == AddMod(rem, rem, b)
        r4 == AddMod(r2.rem, r2.rem, b)
        r5 == AddMod(r4.rem, rem, b)
        r10 == AddMod(r5.rem, r5.rem, b)
    IN  [digit |-> 4 * r2.carry + 2 * r4.carry + 2 * r5.carry + r10.carry,
         rem |-> r10.rem]

RECURSIVE DivLong(_, _, _, _)
DivLong(q, rem, b, digits) ==
    IF digits = 0
    THEN IF rem > b - rem \/ (rem = b - rem /\ q % 2 = 1) THEN q + 1 ELSE q
    ELSE LET t == TimesTen(rem, b)
         IN  DivLong(10 * q + t.digit, t.rem, b, digits - 1)

DivAbs(a, b) ==
    IF b < DivFast THEN DivDigits(a, b) ELSE DivLong(a \div b, a % b, b, 6)

\* Python's float quotient a / b, b # 0.
DivFix(a, b) == Sgn(a) * Sgn(b) * DivAbs(Abs(a), Abs(b))

\* math.sqrt(x), x >= 0: Newton's iteration from above.
RECURSIVE SqrtIter(_, _)
SqrtIter(x, y) ==
    LET y2 == (y + DivFix(x, y)) \div 2
    IN  IF y2 >= y THEN y ELSE SqrtIter(x, y2)

Sqrt(x) == IF x = 0 THEN 0 ELSE SqrtIter(x, (x + SCALE) \div 2 + 1)

\* math.log(q), q > 0: q = m * 2^k with 1 <= m < 2, and
\* ln m = 2 * (z + z^3/3 + z^5/5 + ...), z = (m - 1) / (m + 1).
LN2 == 693147
LnTerms == 8

RECURSIVE LnSeries(_, _, _, _)
LnSeries(zpow, z2, j, acc) ==
    IF j >= LnTerms \/ zpow = 0 THEN acc
    ELSE LnSeries(MulFix(zpow, z2), z2, j + 1, acc + zpow \div (2 * j + 1))

RECURSIVE LnReduce(_, _)
LnReduce(m, k) ==
    IF m >= 2 * SCALE THEN LnReduce(m \div 2, k + 1)
    ELSE IF m < SCALE THEN LnReduce(m * 2, k - 1)
    ELSE LET z == DivFix(m - SCALE, m + SCALE)
         IN  k * LN2 + 2 * LnSeries(z, MulFix(z, z), 0, 0)

Ln(q) == LnReduce(q, 0)

\* math.exp(x): OverflowError above ln(DBL_MAX) = 709.782712...; otherwise
\* x = k * ln 2 + f with 0 <= f < ln 2 and exp(x) = 2^k * exp(f), exp(f) by
\* its Taylor series.  Below 2^-31 the result is 0 at this resolution.
ExpOverflow == 709782712
ExpTerms == 12

RECURSIVE ExpSeries(_, _, _, _)
ExpSeries(f, term, n, acc) ==
    IF n > ExpTerms \/ term = 0 THEN acc
    ELSE ExpSeries(f, MulFix(term, f) \div (n + 1), n + 1, acc + term)

ExpScale(k, e) ==
    IF k >= 0 THEN Value(e * 2^k)
    ELSE IF k < -30 THEN Value(0)
    ELSE Value((e + 2^(-k - 1)) \div 2^(-k))

Exp(x) ==
    IF x > ExpOverflow THEN Raise("OverflowError")
    ELSE ExpScale(x \div LN2, ExpSeries(x % LN2, SCALE, 0, 0))

\* math.erf(x): Abramowitz and Stegun 7.1.26 (error below 1.5e-7),
\* erf(x) = 1 - (a1 t + a2 t^2 + a3 t^3 + a4 t^4 + a5 t^5) exp(-x^2),
\* t = 1 / (1 + p x), for x >= 0, and erf(-x) = -erf(x).
ErfP == 327591
ErfA1 == 254830
ErfA2 == -284497
ErfA3 == 1421414
ErfA4 == -1453152
ErfA5 == 1061405

ErfPoly(t) ==
    MulFix(t, ErfA1 + MulFix(t, ErfA2 + MulFix(t, ErfA3
        + MulFix(t, ErfA4 + MulFix(t, ErfA5)))))

ErfTail(ax) ==
    MulFix(ErfPoly(DivFix(SCALE, SCALE + MulFix(ErfP, ax))),
           Exp(-MulFix(ax, ax)).val)

ErfClip(tail) ==
    IF tail < 0 THEN SCALE ELSE IF tail > SCALE THEN 0 ELSE SCALE - tail

Erf(x) == Sgn(x) * ErfClip(ErfTail(Abs(x)))

Pi == 3141593
Sqrt2 == Sqrt(2 * SCALE)
InvSqrt2Pi == DivFix(SCALE, Sqrt(MulFix(2 * SCALE, Pi)))

\* def N(x): return 0.5 * (1 + math.erf(x / math.sqrt(2)))
N(x) == MulFix(HALF, SCALE + Erf(DivFix(x, Sqrt2)))

\* def phi(x): return (1 / math.sqrt(2 * math.pi)) * math.exp(-0.5 * x**2)
phi(x) == MulFix(InvSqrt2Pi, Exp(MulFix(-HALF, MulFix(x, x))).val)

\* The quotient num / den of d1, kept within +-DClamp.  In doubles
\* N(x) is exactly 0.0 or 1.0 once |x| > 8.3 and phi(x) is exactly 0.0 once
\* |x| > 38.6, and d1 is only ever passed to N and phi, or reduced by
\* sigma * sqrt(T) (d2) and passed to N: the results of the engine are those
\* of the unclamped d1 as long as |sigma * sqrt(T)| < 30.
DClamp == 40

ClampDiv(num, den) ==
    IF den = 0 THEN Raise("ZeroDivisionError")
    ELSE IF Abs(num) >= DClamp * Abs(den)
    THEN Value(Sgn(num) * Sgn(den) * DClamp * SCALE)
    ELSE Value(DivFix(num, den))

\* def d1(S, K, T, r, sigma):
\*     return (math.log(S / K) + (r + 0.5 * sigma**2) * T) / (sigma * math.sqrt(T))
\* in Python's order of evaluation: S / K raises ZeroDivisionError for K = 0,
\* math.log raises ValueError for an argument <= 0, math.sqrt raises
\* ValueError for T < 0, and the final division raises ZeroDivisionError for
\* a zero divisor.
d1(S, K, T, r, sigma) ==
    IF K = 0 THEN Raise("ZeroDivisionError")
    ELSE IF DivFix(S, K) <= 0 THEN Raise("ValueError")
    ELSE IF T < 0 THEN Raise("ValueError")
    ELSE Eval2(ClampDiv,
               Ln(DivFix(S, K))
                   + MulFix(r + MulFix(HALF, MulFix(sigma, sigma)), T),
               MulFix(sigma, Sqrt(T)))

\* def d2(S, K, T, r, sigma):
\*     return d1(S, K, T, r, sigma) - sigma * math.sqrt(T)
d2(S, K, T, r, sigma) ==
    Eval1(LAMBDA d_1 : IF d_1.err # "" THEN d_1
                       ELSE Value(d_1.val - MulFix(sigma, Sqrt(T))),
          d1(S, K, T, r, sigma))

\* K * math.exp(-r * T): the discounted strike; math.exp may raise.
Discounted(K, T, r) ==
    Eval1(LAMBDA e : IF e.err # "" THEN e ELSE Value(MulFix(K, e.val)),
          Exp(MulFix(-r, T)))

\* black_scholes_price with the put written with N(d2) and N(d1), the signs
\* of the call's arguments.
PriceUnsignedPut(S, K, T, r, sigma, option_type) ==
    Eval3(LAMBDA d_1, d_2, Kd :
            IF d_1.err # "" THEN d_1
            ELSE IF d_2.err # "" THEN d_2
            ELSE IF Kd.err # "" THEN Kd
            ELSE IF option_type = "call"
            THEN Value(MulFix(S, N(d_1.val)) - MulFix(Kd.val, N(d_2.val)))
            ELSE Value(MulFix(Kd.val, N(d_2.val)) - MulFix(S, N(d_1.val))),
          d1(S, K, T, r, sigma), d2(S, K, T, r, sigma), Discounted(K, T, r))

\* def black_scholes_price(S, K, T, r, sigma, option_type): any
\* option_type other than 'call' takes the else branch, the put's.
black_scholes_price(S, K, T, r, sigma, option_type) ==
    Eval3(LAMBDA d_1, d_2, Kd :
            IF d_1.err # "" THEN d_1
            ELSE IF d_2.err # "" THEN d_2
            ELSE IF Kd.err # "" THEN Kd
            ELSE IF option_type = "call"
            THEN Value(MulFix(S, N(d_1.val)) - MulFix(Kd.val, N(d_2.val)))
            ELSE Value(MulFix(Kd.val, N(-d_2.val)) - MulFix(S, N(-d_1.val))),
          d1(S, K, T, r, sigma), d2(S, K, T, r, sigma), Discounted(K, T, r))

\* delta with the put's delta written -N(d1).
DeltaNegatedPut(S, K, T, r, sigma, option_type) ==
    Eval1(LAMBDA d_1 :
            IF d_1.err # "" THEN d_1
            ELSE IF option_type = "call" THEN Value(N(d_1.val))
            ELSE Value(-N(d_1.val)),
          d1(S, K, T, r, sigma))

\* def delta(S, K, T, r, sigma, option_type)
delta(S, K, T, r, sigma, option_type) ==
    Eval1(LAMBDA d_1 :
            IF d_1.err # "" THEN d_1
            ELSE IF option_type = "call" THEN Value(N(d_1.val))
            ELSE Value(N(d_1.val) - SCALE),
          d1(S, K, T, r, sigma))

\* gamma with the leading minus sign of theta's first term.
GammaNegated(S, K, T, r, sigma) ==
    Eval1(LAMBDA d_1 :
            IF d_1.err # "" THEN d_1
            ELSE Value(-DivFix(phi(d_1.val),
                               MulFix(MulFix(S, sigma), Sqrt(T)))),
          d1(S, K, T, r, sigma))

\* def gamma(S, K, T, r, sigma): phi(d_1) / (S * sigma * math.sqrt(T))
gamma(S, K, T, r, sigma) ==
    Eval1(LAMBDA d_1 :
            IF d_1.err # "" THEN d_1
            ELSE Value(DivFix(phi(d_1.val),
                              MulFix(MulFix(S, sigma), Sqrt(T)))),
          d1(S, K, T, r, sigma))

\* def vega(S, K, T, r, sigma): S * phi(d_1) * math.sqrt(T)
vega(S, K, T, r, sigma) ==
    Eval1(LAMBDA d_1 :
            IF d_1.err # "" THEN d_1
            ELSE Value(MulFix(MulFix(S, phi(d_1.val)), Sqrt(T))),
          d1(S, K, T, r, sigma))

\* def theta(S, K, T, r, sigma, option_type)
\* (math.exp is the one call of these lines that can raise once d1 and d2
\* have returned, so its exception is the one that leaves theta and rho.)
theta(S, K, T, r, sigma, option_type) ==
    Eval3(LAMBDA d_1, d_2, e :
            IF d_1.err # "" THEN d_1
            ELSE IF d_2.err # "" THEN d_2
            ELSE IF e.err # "" THEN e
            ELSE Eval1(LAMBDA first_term :
                    IF option_type = "call"
                    THEN Value(first_term
                           - MulFix(MulFix(MulFix(r, K), e.val), N(d_2.val)))
                    ELSE Value(first_term
                           + MulFix(MulFix(MulFix(r, K), e.val), N(-d_2.val))),
                 -DivFix(MulFix(MulFix(S, phi(d_1.val)), sigma),
                         2 * Sqrt(T))),
          d1(S, K, T, r, sigma), d2(S, K, T, r, sigma), Exp(MulFix(-r, T)))

\* def rho(S, K, T, r, sigma, option_type)
rho(S, K, T, r, sigma, option_type) ==
    Eval2(LAMBDA d_2, e :
            IF d_2.err # "" THEN d_2
            ELSE IF e.err # "" THEN e
            ELSE IF option_type = "call"
            THEN Value(MulFix(MulFix(MulFix(K, T), e.val), N(d_2.val)))
            ELSE Value(-MulFix(MulFix(MulFix(K, T), e.val), N(-d_2.val))),
          d2(S, K, T, r, sigma), Exp(MulFix(-r, T)))

(***************************************************************************)
(* The script: the sidebar's widgets, then the four tabs in order.         *)
(* Streamlit runs the script from the top on page load and after every     *)
(* change of a widget; a call that raises ends the run.  Rendering         *)
(* (st.write, matplotlib, st.dataframe, st.download_button) is not         *)
(* modelled: only what the script computes.                                *)
(***************************************************************************)

VARIABLES
    module,   \* which of the two scripts runs: "pricerB&S" or "pricerBS"
    ui,       \* the widgets' values: S, K, days, r, sigma, option_type, greek
    pc,       \* the script's position: "tab0" .. "tab3", "done", "failed";
              \* "engine" when the engine is called without the script
    out,      \* what the current run of the script has computed so far
    reruns,   \* the number of widget changes so far
    req,      \* the arguments of a direct call of the engine
    res       \* the function called and what it returned or raised

vars == <<module, ui, pc, out, reruns, req, res>>

Modules == {"pricerB&S", "pricerBS"}

\* st.slider(label, min, max, default), lines 87-91; r and sigma in units
\* of 1 / SCALE.
SMin == 20
SMax == 1000
SDefault == 100
KMin == 20
KMax == 1000
KDefault == 100
DaysMin == 7
DaysMax == 730
DaysDefault == 365
DaysPerYear == 365
RMin == 0
RMax == 200000
RDefault == 50000
SigmaMin == 10000
SigmaMax == 1000000
SigmaDefault == 200000

\* The positions the model moves each slider to: both ends and the default.
\* The spot slider starting at 0 instead of 20.
SValuesFromZero == {0, SDefault, SMax}
SValues == {SMin, SDefault, SMax}
KValues == {KMin, KDefault, KMax}
DaysValues == {DaysMin, DaysDefault, DaysMax}
RValues == {RMin, RDefault, RMax}
SigmaValues == {SigmaMin, SigmaDefault, SigmaMax}
\* st.radio("Option type", ['call', 'put'])
OptionTypes == <<"call", "put">>
\* st.selectbox("Choose a Greek", ["Delta", "Gamma", "Vega", "Theta", "Rho"])
Greeks == <<"Delta", "Gamma", "Vega", "Theta", "Rho">>

Range(seq) == {seq[i] : i \in 1..Len(seq)}

\* S_range = list(range(50, 151))
SRangeStart == 50
SRangeStop == 151
S_range == [i \in 1..(SRangeStop - SRangeStart) |-> SRangeStart + i - 1]

\* T = st.slider(...) / 365, and i/365 in T_range
Years(days) == DivFix(days * SCALE, DaysPerYear * SCALE)

\* T_range = [i/365 for i in range(30, 366, 5)]
TRangeStart == 30
TRangeStop == 366
TRangeStep == 5
T_range ==
    [i \in 1..((TRangeStop - TRangeStart + TRangeStep - 1) \div TRangeStep)
        |-> Years(TRangeStart + (i - 1) * TRangeStep)]

\* The exception of the first call that raised among the results rs, ""
\* if none did: the script stops there.
FirstErr(rs) ==
    LET failed == {j \in 1..Len(rs) : rs[j].err # ""}
    IN  IF failed = {} THEN ""
        ELSE rs[CHOOSE j \in failed : \A k \in failed : j <= k].err

Vals(rs) == [i \in 1..Len(rs) |-> rs[i].val]

\* Tabs 1 and 4: the price and the five Greeks of the sidebar's values, in
\* the order the script calls them.
GreekSet(S, K, T, r, sigma, option_type) ==
    << black_scholes_price(S, K, T, r, sigma, option_type),
       delta(S, K, T, r, sigma, option_type),
       gamma(S, K, T, r, sigma),
       vega(S, K, T, r, sigma),
       theta(S, K, T, r, sigma, option_type),
       rho(S, K, T, r, sigma, option_type) >>

\* The spot sweep filled from the far end of S_range.
SpotSweepReversed(K, T, r, sigma, option_type) ==
    [i \in 1..Len(S_range) |->
        black_scholes_price(S_range[Len(S_range) + 1 - i] * SCALE, K, T, r,
                            sigma, option_type)]

\* Tab 2: prices = [black_scholes_price(s, K, T, r, sigma, option_type)
\*                  for s in S_range]
SpotSweep(K, T, r, sigma, option_type) ==
    [i \in 1..Len(S_range) |->
        black_scholes_price(S_range[i] * SCALE, K, T, r, sigma, option_type)]

\* Tab 3: one pass of the loop "for t in T_range", as what it appends to
\* greek_values: one value when a branch of the if/elif chain matches the
\* selected Greek, nothing otherwise (the chain has no else branch).
GreekStep(greek, S, K, t, r, sigma, option_type) ==
    IF greek = "Delta" THEN <<delta(S, K, t, r, sigma, option_type)>>
    ELSE IF greek = "Gamma" THEN <<gamma(S, K, t, r, sigma)>>
    ELSE IF greek = "Vega" THEN <<vega(S, K, t, r, sigma)>>
    ELSE IF greek = "Theta" THEN <<theta(S, K, t, r, sigma, option_type)>>
    ELSE IF greek = "Rho" THEN <<rho(S, K, t, r, sigma, option_type)>>
    ELSE <<>>

\* The list greek_values after the passes have appended to it, in order.
Extend(greek_values, passes) ==
    LET kept == {i \in DOMAIN passes : passes[i] # <<>>}
        nth(k) == CHOOSE i \in kept : Cardinality({j \in kept : j <= i}) = k
    IN  greek_values \o [k \in 1..Cardinality(kept) |-> passes[nth(k)][1]]

\* greek_values = []; for t in T_range: ...
MaturitySweep(greek, S, K, r, sigma, option_type) ==
    Extend(<<>>, [i \in 1..Len(T_range) |->
                    GreekStep(greek, S, K, T_range[i], r, sigma, option_type)])

\* Tab 4: the keys of the results dict, in insertion order.  The French
\* script names the first one "Prix".
Columns(m) ==
    IF m = "pricerB&S"
    THEN <<"Price", "Delta", "Gamma", "Vega", "Theta", "Rho">>
    ELSE <<"Prix", "Delta", "Gamma", "Vega", "Theta", "Rho">>

\* df = pd.DataFrame(results): each key a column holding a one-element
\* list, the rows numbered from 0.
DataFrame(columns, values) ==
    [columns |-> columns, index |-> <<0>>, data |-> <<values>>]

\* df.to_csv(index=...): a header line, then a line per row; with the index,
\* an unnamed first column holding it.  A line is its sequence of cells.
ToCsv(df, index) ==
    [header |-> IF index THEN <<"">> \o df.columns ELSE df.columns,
     rows |-> [i \in 1..Len(df.data) |->
                  IF index THEN <<df.index[i]>> \o df.data[i]
                  ELSE df.data[i]]]

\* to_csv() called without index=False.
ExportCsvIndexed(df) == ToCsv(df, TRUE)

\* csv = df.to_csv(index=False).encode("utf-8")
ExportCsv(df) == ToCsv(df, FALSE)

NoCsv == [header |-> <<>>, rows |-> <<>>]
Blank == [tab0 |-> <<>>, prices |-> <<>>, greek_values |-> <<>>,
          csv |-> NoCsv, exception |-> ""]

\* The sidebar's values as the engine's arguments.
SpotOf(w) == w.S * SCALE
StrikeOf(w) == w.K * SCALE
MaturityOf(w) == Years(w.days)

\* A direct call of the engine: which function, and what came of it.
NoReq == [S |-> 0, K |-> 0, T |-> 0, r |-> 0, sigma |-> 0,
          option_type |-> ""]
NoRes == [fn |-> "none", greek |-> "", ret |-> Raise("none"),
          series |-> <<>>]

MaxReruns == 1

Init ==
    /\ module \in Modules
    /\ ui = [S |-> SDefault, K |-> KDefault, days |-> DaysDefault,
             r |-> RDefault, sigma |-> SigmaDefault,
             option_type |-> OptionTypes[1], greek |-> Greeks[1]]
    /\ pc = "tab0"
    /\ out = Blank
    /\ reruns = 0
    /\ req = NoReq
    /\ res = NoRes

\* The run is over and the page waits for a widget to change.
Idle == pc \in {"done", "failed"} /\ reruns < MaxReruns

\* A widget changes: the script starts again from the top with a blank page.
Change(field, v) ==
    /\ ui[field] # v
    /\ ui' = [ui EXCEPT ![field] = v]
    /\ pc' = "tab0"
    /\ out' = Blank
    /\ reruns' = reruns + 1
    /\ UNCHANGED <<module, req, res>>

SetS == Idle /\ \E v \in SValues : Change("S", v)
SetK == Idle /\ \E v \in KValues : Change("K", v)
SetDays == Idle /\ \E v \in DaysValues : Change("days", v)
SetR == Idle /\ \E v \in RValues : Change("r", v)
SetSigma == Idle /\ \E v \in SigmaValues : Change("sigma", v)
SetOptionType == Idle /\ \E v \in Range(OptionTypes) : Change("option_type", v)
SetGreek == Idle /\ \E v \in Range(Greeks) : Change("greek", v)

\* The end of a tab: its calls rs raised and the script stops with the
\* exception on the page, or their values are kept in field f and the script
\* goes on to the next tab.
Step(next, f, rs, kept) ==
    /\ IF FirstErr(rs) # ""
       THEN /\ pc' = "failed"
            /\ out' = [out EXCEPT !.exception = FirstErr(rs)]
       ELSE /\ pc' = next
            /\ out' = [out EXCEPT ![f] = kept]
    /\ UNCHANGED <<module, ui, reruns, req, res>>

\* with tabs[0]: the price and the Greeks are written out.
Tab0 ==
    /\ pc = "tab0"
    /\ \E rs \in {GreekSet(SpotOf(ui), StrikeOf(ui), MaturityOf(ui), ui.r,
                            ui.sigma, ui.option_type)} :
           Step("tab1", "tab0", rs, Vals(rs))

\* with tabs[1]: the price over S_range.
Tab1 ==
    /\ pc = "tab1"
    /\ \E rs \in {SpotSweep(StrikeOf(ui), MaturityOf(ui), ui.r, ui.sigma,
                             ui.option_type)} :
           Step("tab2", "prices", rs, Vals(rs))

\* with tabs[2]: the selected Greek over T_range.
Tab2 ==
    /\ pc = "tab2"
    /\ \E rs \in {MaturitySweep(ui.greek, SpotOf(ui), StrikeOf(ui), ui.r,
                                 ui.sigma, ui.option_type)} :
           Step("tab3", "greek_values", rs, Vals(rs))

\* with tabs[3]: the results table and its CSV.
Tab3 ==
    /\ pc = "tab3"
    /\ \E rs \in {GreekSet(SpotOf(ui), StrikeOf(ui), MaturityOf(ui), ui.r,
                            ui.sigma, ui.option_type)} :
           Step("done", "csv", rs,
                ExportCsv(DataFrame(Columns(module), Vals(rs))))

Next ==
    \/ SetS \/ SetK \/ SetDays \/ SetR \/ SetSigma
    \/ SetOptionType \/ SetGreek
    \/ Tab0 \/ Tab1 \/ Tab2 \/ Tab3

Spec == Init /\ [][Next]_vars

\* ---------------------------------------------------------------------
\* The engine called directly: black_scholes_price, delta, gamma, vega,
\* theta and rho are module-level functions and take whatever they are
\* given.  req is the argument list of one call, res what came of it.
SpotGrid == {-100 * SCALE, 0, 90 * SCALE, 100 * SCALE}
StrikeGrid == {-5 * SCALE, 0, 100 * SCALE, 110 * SCALE}
MaturityGrid == {-SCALE, 0, HALF, SCALE}
RateGrid == {-1500 * SCALE, 0, RDefault}
SigmaGrid == {-SigmaDefault, 0, SigmaDefault, HALF}
TypeGrid == Range(OptionTypes) \cup {"Call"}
Requests ==
    [S : SpotGrid, K : StrikeGrid, T : MaturityGrid, r : RateGrid,
     sigma : SigmaGrid, option_type : TypeGrid]

\* The loop of tab 3 run on its own, from a page's parameters and with any
\* selector: the five of the selectbox, and "Price".
Selectors == Range(Greeks) \cup {"Price"}
SweepBases ==
    {q \in Requests : /\ q.S > 0 /\ q.K > 0 /\ q.T = SCALE /\ q.r = RDefault
                      /\ q.sigma > 0 /\ q.option_type \in Range(OptionTypes)}

EngineInit ==
    /\ module \in Modules
    /\ ui = [S |-> SDefault, K |-> KDefault, days |-> DaysDefault,
             r |-> RDefault, sigma |-> SigmaDefault,
             option_type |-> OptionTypes[1], greek |-> Greeks[1]]
    /\ pc = "engine"
    /\ out = Blank
    /\ reruns = 0
    /\ req \in Requests
    /\ res = NoRes

Ready == pc = "engine" /\ res = NoRes

\* The call returns a number or raises.
Return(fn, ret) ==
    /\ res' = [fn |-> fn, greek |-> "", ret |-> ret, series |-> <<>>]
    /\ UNCHANGED <<module, ui, pc, out, reruns, req>>

CallPrice ==
    /\ Ready
    /\ Return("black_scholes_price",
              black_scholes_price(req.S, req.K, req.T, req.r, req.sigma,
                                  req.option_type))

CallDelta ==
    /\ Ready
    /\ Return("delta",
              delta(req.S, req.K, req.T, req.r, req.sigma, req.option_type))

CallGamma ==
    /\ Ready
    /\ Return("gamma", gamma(req.S, req.K, req.T, req.r, req.sigma))

CallVega ==
    /\ Ready
    /\ Return("vega", vega(req.S, req.K, req.T, req.r, req.sigma))

CallTheta ==
    /\ Ready
    /\ Return("theta",
              theta(req.S, req.K, req.T, req.r, req.sigma, req.option_type))

CallRho ==
    /\ Ready
    /\ Return("rho",
              rho(req.S, req.K, req.T, req.r, req.sigma, req.option_type))

\* greek_values = [] ... for t in T_range: ..., up to the plot: the list
\* the loop leaves, or the exception of the call that stopped it.
SweepMaturity ==
    /\ Ready
    /\ req \in SweepBases
    /\ \E greek \in Selectors :
         \E rs \in {MaturitySweep(greek, req.S, req.K, req.r, req.sigma,
                                  req.option_type)} :
            res' = [fn |-> "maturity_sweep", greek |-> greek,
                    ret |-> IF FirstErr(rs) = "" THEN Value(Len(rs))
                            ELSE Raise(FirstErr(rs)),
                    series |-> IF FirstErr(rs) = "" THEN Vals(rs) ELSE <<>>]
    /\ UNCHANGED <<module, ui, pc, out, reruns, req>>

EngineNext ==
    \/ CallPrice \/ CallDelta \/ CallGamma \/ CallVega \/ CallTheta
    \/ CallRho \/ SweepMaturity

EngineSpec == EngineInit /\ [][EngineNext]_vars

\* ---------------------------------------------------------------------
\* The claims.

\* The spec's valid parameter set: S, K, T and sigma positive.
Positive(q) == q.S > 0 /\ q.K > 0 /\ q.T > 0 /\ q.sigma > 0
Recognized(q) == q.option_type \in Range(OptionTypes)
EngineFns == {"black_scholes_price", "delta", "gamma", "vega", "theta", "rho"}
TypedFns == {"black_scholes_price", "delta", "theta", "rho"}

\* Parameters of ordinary size: S, K, T, sigma between 1e-6 and 1e3, and
\* |r * T| at most 5.
MaxOrdinary == 1000 * SCALE
MaxRateTime == 5 * SCALE
Ordinary(q) ==
    /\ Positive(q)
    /\ q.S <= MaxOrdinary /\ q.K <= MaxOrdinary
    /\ q.T <= MaxOrdinary /\ q.sigma <= MaxOrdinary
    /\ Abs(MulFix(q.r, q.T)) <= MaxRateTime

OtherType(option_type) == IF option_type = "call" THEN "put" ELSE "call"

\* C1: every call of an engine function with one of S, K, T, sigma <= 0
\* fails with DomainError; it neither returns a number nor fails with
\* ZeroDivisionError or a math-domain ValueError.
C1_DomainError ==
    (res.fn \in EngineFns /\ ~Positive(req)) => res.ret.err = "DomainError"

\* C2: every call of black_scholes_price, delta, theta or rho with valid
\* numbers and an option_type that is neither 'call' nor 'put' fails with
\* InvalidArgument instead of returning the put formula's value.
C2_InvalidArgument ==
    (res.fn \in TypedFns /\ Ordinary(req) /\ ~Recognized(req))
        => res.ret.err = "InvalidArgument"

\* 1e-6, the tolerance of put-call parity.
ParityTol == SCALE \div 10^6

\* The price just returned and the price of the other option type of the
\* same parameters differ by S - K * exp(-r * T), within ParityTol.
ParityHolds ==
    LET q == req
        other == black_scholes_price(q.S, q.K, q.T, q.r, q.sigma,
                                     OtherType(q.option_type))
        Kd == Discounted(q.K, q.T, q.r)
        call == IF q.option_type = "call" THEN res.ret ELSE other
        put == IF q.option_type = "call" THEN other ELSE res.ret
    IN  /\ res.ret.err = ""
        /\ other.err = ""
        /\ Kd.err = ""
        /\ Abs((call.val - put.val) - (q.S - Kd.val)) <= ParityTol

C4_DeltaBounds ==
    (res.fn = "delta" /\ Positive(req) /\ Recognized(req)) =>
        /\ res.ret.err = ""
        /\ req.option_type = "call" =>
              (0 <= res.ret.val /\ res.ret.val <= SCALE)
        /\ req.option_type = "put" =>
              /\ -SCALE <= res.ret.val /\ res.ret.val <= 0
              /\ res.ret.val
                   = delta(req.S, req.K, req.T, req.r, req.sigma, "call").val
                       - SCALE

C4_Witness ==
    /\ res.fn = "delta"
    /\ Positive(req)
    /\ req.option_type = "put"
    /\ res.ret.err = ""
    /\ -SCALE < res.ret.val /\ res.ret.val < 0

\* C5: on valid inputs gamma and vega are >= 0, and the gamma and vega the
\* script computes for a page do not depend on the page's option type.
C5_GammaVegaPositive ==
    /\ (res.fn \in {"gamma", "vega"} /\ Positive(req)) =>
          (res.ret.err = "" /\ res.ret.val >= 0)
    /\ (res.fn = "maturity_sweep" /\ res.greek \in {"Gamma", "Vega"}) =>
          /\ res.ret.err = ""
          /\ \A i \in 1..Len(res.series) : res.series[i] >= 0
          /\ res.series
               = Vals(MaturitySweep(res.greek, req.S, req.K, req.r,
                                    req.sigma, OtherType(req.option_type)))

C5_Witness ==
    /\ res.fn = "gamma"
    /\ Positive(req)
    /\ res.ret.err = ""
    /\ res.ret.val > 0

\* The engine quantity a recognized selector of the maturity sweep names.
Quantity(greek, S, K, t, r, sigma, option_type) ==
    CASE greek = "Delta" -> delta(S, K, t, r, sigma, option_type)
      [] greek = "Gamma" -> gamma(S, K, t, r, sigma)
      [] greek = "Vega" -> vega(S, K, t, r, sigma)
      [] greek = "Theta" -> theta(S, K, t, r, sigma, option_type)
      [] greek = "Rho" -> rho(S, K, t, r, sigma, option_type)

\* C6: the spot sweep has one price per element of S_range and the maturity
\* sweep one value per element of T_range, the i-th being the quantity at
\* the i-th swept value with every other parameter at the page's value.
C6_SweepPositional ==
    /\ pc \in {"tab2", "tab3", "done"} =>
          /\ Len(out.prices) = Len(S_range)
          /\ \A i \in 1..Len(S_range) :
                out.prices[i]
                  = black_scholes_price(S_range[i] * SCALE, StrikeOf(ui),
                        MaturityOf(ui), ui.r, ui.sigma, ui.option_type).val
    /\ pc \in {"tab3", "done"} =>
          /\ Len(out.greek_values) = Len(T_range)
          /\ \A i \in 1..Len(T_range) :
                out.greek_values[i]
                  = Quantity(ui.greek, SpotOf(ui), StrikeOf(ui), T_range[i],
                        ui.r, ui.sigma, ui.option_type).val

C6_Witness ==
    /\ pc = "done"
    /\ ui.greek = "Theta"
    /\ Len(out.prices) = 101
    /\ Len(out.greek_values) = 68
    /\ out.prices[1] < out.prices[101]
    /\ out.greek_values[1] # out.greek_values[68]

\* The six values of a page, in the order of the export's columns.
PageValues ==
    LET S == SpotOf(ui)
        K == StrikeOf(ui)
        T == MaturityOf(ui)
    IN  << black_scholes_price(S, K, T, ui.r, ui.sigma, ui.option_type).val,
           delta(S, K, T, ui.r, ui.sigma, ui.option_type).val,
           gamma(S, K, T, ui.r, ui.sigma).val,
           vega(S, K, T, ui.r, ui.sigma).val,
           theta(S, K, T, ui.r, ui.sigma, ui.option_type).val,
           rho(S, K, T, ui.r, ui.sigma, ui.option_type).val >>

\* C7, as the spec states it: in every pricer module the export has the
\* columns Price, Delta, Gamma, Vega, Theta, Rho in that order, one header
\* row, one data row and no index column.
C7_ColumnsPrice ==
    pc = "done" =>
        /\ out.csv.header = <<"Price", "Delta", "Gamma", "Vega", "Theta", "Rho">>
        /\ out.csv.rows = <<PageValues>>

\* C7, amended: the first column is named Price in pricerB&S.py and Prix in
\* pricerBS.py; the rest as stated.
C7_ColumnsPerModule ==
    pc = "done" =>
        /\ out.csv.header
             = IF module = "pricerBS"
               THEN <<"Prix", "Delta", "Gamma", "Vega", "Theta", "Rho">>
               ELSE <<"Price", "Delta", "Gamma", "Vega", "Theta", "Rho">>
        /\ out.csv.rows = <<PageValues>>

C7_Witness ==
    /\ pc = "done"
    /\ module = "pricerBS"
    /\ out.csv.header[1] = "Prix"
    /\ Len(out.csv.rows) = 1
    /\ Len(out.csv.rows[1]) = 6

C10_NoEngineError ==
    /\ pc # "failed"
    /\ out.exception = ""
    /\ SpotOf(ui) > 0 /\ StrikeOf(ui) > 0 /\ MaturityOf(ui) > 0
    /\ ui.sigma > 0
    /\ ui.option_type \in Range(OptionTypes)
    /\ \A i \in 1..Len(S_range) : S_range[i] * SCALE > 0
    /\ \A i \in 1..Len(T_range) : T_range[i] > 0

C10_Witness ==
    /\ pc = "done"
    /\ ui.sigma = SigmaMin
    /\ out.exception = ""
    /\ Len(out.prices) = Len(S_range)
====
